---- MODULE Spec2Model ----
(***************************************************************************)
(* Replit DB clients (sync_client.rs, async_client.rs) against the remote  *)
(* key-value service.  Strings are sequences of one-character strings, so  *)
(* that percent-encoding, form parsing and the split of a listing body on  *)
(* newline are computed character by character.  The two clients run in    *)
(* lockstep: the same calls, each against its own database, the remote     *)
(* answering both in the same way.                                         *)
(***************************************************************************)
EXTENDS Naturals, Sequences, FiniteSets

VARIABLES store, cl, pre, ext, nat, prev

vars == <<store, cl, pre, ext, nat, prev>>

Variants == {"sync", "async"}

(* ------------------------------------------------------------------ *)
(* Inputs.                                                             *)
(* ------------------------------------------------------------------ *)

NL == "\n"

Keys == { <<"=">>, <<"a", "&">>, <<"a", NL>> }

Values == { <<>>, <<"&", "=", NL, "%", "2", "6">> }

Prefixes == { <<"a">> }

(* Texts of an error body and of a transport error. *)
Boom == <<"b", "o", "o", "m">>

TransportMsg == <<"t">>

DecodeMsg == <<"d">>

(* A listing body with a broken percent-escape. *)
Garbled == <<"%">>

(* Writes of another writer of the database during one call of the client. *)
MaxExternal == 1

(* Statuses of a simulated remote failure. *)
FaultStatuses == {404, 500}

(* ------------------------------------------------------------------ *)
(* Strings.                                                            *)
(* ------------------------------------------------------------------ *)

RECURSIVE Split(_, _)
Split(s, sep) ==
  IF \A i \in 1..Len(s) : s[i] # sep
  THEN << s >>
  ELSE LET i == CHOOSE j \in 1..Len(s) : s[j] = sep /\ \A m \in 1..(j-1) : s[m] # sep
       IN  << SubSeq(s, 1, i - 1) >> \o Split(SubSeq(s, i + 1, Len(s)), sep)

RECURSIVE Join(_, _)
Join(ss, sep) ==
  IF ss = <<>> THEN <<>>
  ELSE IF Len(ss) = 1 THEN ss[1]
  ELSE ss[1] \o << sep >> \o Join(Tail(ss), sep)

HasPrefix(s, p) == Len(p) <= Len(s) /\ SubSeq(s, 1, Len(p)) = p

(* ------------------------------------------------------------------ *)
(* urlencoding::encode / urlencoding::decode.                          *)
(* ------------------------------------------------------------------ *)

Escape(c) ==
  CASE c = "="  -> <<"%", "3", "D">>
    [] c = "&"  -> <<"%", "2", "6">>
    [] c = NL   -> <<"%", "0", "A">>
    [] c = "%"  -> <<"%", "2", "5">>
    [] OTHER    -> << c >>

IsEscape(a, b) == << a, b >> \in { <<"3", "D">>, <<"2", "6">>, <<"0", "A">>, <<"2", "5">> }

Unescape(a, b) ==
  CASE a = "3" /\ b = "D" -> "="
    [] a = "2" /\ b = "6" -> "&"
    [] a = "0" /\ b = "A" -> NL
    [] OTHER              -> "%"

RECURSIVE encode(_)
encode(s) == IF s = <<>> THEN <<>> ELSE Escape(Head(s)) \o encode(Tail(s))

RECURSIVE decode(_)
decode(s) ==
  IF s = <<>> THEN [ok |-> TRUE, str |-> <<>>]
  ELSE IF Head(s) = "%"
       THEN IF Len(s) >= 3 /\ IsEscape(s[2], s[3])
            THEN LET r == decode(SubSeq(s, 4, Len(s)))
                 IN  [ok |-> r.ok, str |-> << Unescape(s[2], s[3]) >> \o r.str]
            ELSE [ok |-> FALSE, str |-> <<>>]
       ELSE LET r == decode(Tail(s))
            IN  [ok |-> r.ok, str |-> << Head(s) >> \o r.str]

(* ------------------------------------------------------------------ *)
(* The remote database: a set of <<key, value>> pairs, keys unique.    *)
(* ------------------------------------------------------------------ *)

KeysOf(st) == { p[1] : p \in st }

Remove(st, k) == { p \in st : p[1] # k }

Put(st, k, v) == Remove(st, k) \cup { << k, v >> }

ValueOf(st, k) == (CHOOSE p \in st : p[1] = k)[2]

Stores == { st \in SUBSET (Keys \X Values) : \A p, q \in st : p[1] = q[1] => p = q }

KeyOrders == { o \in [1..Cardinality(Keys) -> Keys] : \A i, j \in 1..Cardinality(Keys) : o[i] = o[j] => i = j }

RECURSIVE SetToSeq(_)
SetToSeq(S) == IF S = {} THEN <<>> ELSE LET x == CHOOSE y \in S : TRUE IN << x >> \o SetToSeq(S \ {x})

RECURSIVE Filter(_, _)
Filter(seq, S) ==
  IF seq = <<>> THEN <<>>
  ELSE (IF Head(seq) \in S THEN << Head(seq) >> ELSE <<>>) \o Filter(Tail(seq), S)

RECURSIVE EncodeAll(_)
EncodeAll(ks) == IF ks = <<>> THEN <<>> ELSE << encode(Head(ks)) >> \o EncodeAll(Tail(ks))

(* The keys of st that start with prefix, in the order ord the service picks. *)
Listing(st, prefix, ord) ==
  LET ks == { k \in KeysOf(st) : HasPrefix(k, prefix) }
  IN  Filter(ord, ks) \o SetToSeq(ks \ { ord[i] : i \in 1..Len(ord) })

(* One field of an application/x-www-form-urlencoded body. *)
FormField(part) ==
  LET kv == Split(part, "=")
      v  == Join(Tail(kv), "=")
  IN  [name |-> decode(kv[1]), value |-> decode(v)]

RECURSIVE PutFields(_, _)
PutFields(st, parts) ==
  IF parts = <<>> THEN st
  ELSE LET f == FormField(Head(parts))
       IN  PutFields(Put(st, f.name.str, f.value.str), Tail(parts))

FormOk(parts) ==
  \A i \in 1..Len(parts) :
     LET f == FormField(parts[i]) IN f.name.ok /\ f.value.ok

(* How the service answers a request it receives, and the store it leaves. *)
Serve(req, st, ord) ==
  IF req.target = "key"
  THEN LET d == decode(req.seg)
       IN  IF ~d.ok
           THEN [status |-> 400, body |-> Boom, store |-> st]
           ELSE IF d.str \notin KeysOf(st)
           THEN [status |-> 404, body |-> <<>>, store |-> st]
           ELSE IF req.method = "GET"
           THEN [status |-> 200, body |-> ValueOf(st, d.str), store |-> st]
           ELSE [status |-> 204, body |-> <<>>, store |-> Remove(st, d.str)]
  ELSE IF req.method = "GET"
  THEN [status |-> 200, body |-> Join(EncodeAll(Listing(st, req.prefix, ord)), NL), store |-> st]
  ELSE IF req.ctype = "multipart"
  THEN [status |-> 200, body |-> <<>>, store |-> Put(st, req.fname, req.fvalue)]
  ELSE LET parts == Split(req.body, "&")
       IN  IF FormOk(parts)
           THEN [status |-> 200, body |-> <<>>, store |-> PutFields(st, parts)]
           ELSE [status |-> 400, body |-> Boom, store |-> st]

(* natural: the service's own answer; textfail: the same, the body lost on *)
(* the way; fault: an error status with body Boom, nothing done;           *)
(* transport: the request never arrives; lost: it is served and the        *)
(* response never arrives; garbled: a listing with a broken escape.        *)
Outcomes ==
  { [kind |-> "natural", status |-> 0], [kind |-> "textfail", status |-> 0],
    [kind |-> "transport", status |-> 0], [kind |-> "lost", status |-> 0],
    [kind |-> "garbled", status |-> 0] }
  \cup { [kind |-> "fault", status |-> s] : s \in FaultStatuses }

(* What the client gets back for req, and the store afterwards. *)
Reply(req, st, outcome, ord) ==
  LET r == Serve(req, st, ord)
  IN  CASE outcome.kind = "natural" ->
             [send_ok |-> TRUE, status |-> r.status, body |-> r.body, text_ok |-> TRUE, store |-> r.store]
        [] outcome.kind = "textfail" ->
             [send_ok |-> TRUE, status |-> r.status, body |-> r.body, text_ok |-> FALSE, store |-> r.store]
        [] outcome.kind = "fault" ->
             [send_ok |-> TRUE, status |-> outcome.status, body |-> Boom, text_ok |-> TRUE, store |-> st]
        [] outcome.kind = "garbled" ->
             [send_ok |-> TRUE, status |-> 200, body |-> Garbled, text_ok |-> TRUE, store |-> st]
        [] outcome.kind = "lost" ->
             [send_ok |-> FALSE, status |-> 0, body |-> <<>>, text_ok |-> FALSE, store |-> r.store]
        [] OTHER ->
             [send_ok |-> FALSE, status |-> 0, body |-> <<>>, text_ok |-> FALSE, store |-> st]

(* ------------------------------------------------------------------ *)
(* Requests the clients build.                                         *)
(* ------------------------------------------------------------------ *)

Request(method, target, seg, prefix, ctype, body, fname, fvalue) ==
  [method |-> method, target |-> target, seg |-> seg, prefix |-> prefix,
   ctype |-> ctype, body |-> body, fname |-> fname, fvalue |-> fvalue]

get_request(c, key) ==
  Request("GET", "key", encode(key), <<>>, "none", <<>>, <<>>, <<>>)

(* The value goes into the form body as it is. *)
set_request_raw_value(c, key, value) ==
  IF c = "sync"
  THEN Request("POST", "base", <<>>, <<>>, "form", encode(key) \o << "=" >> \o value, <<>>, <<>>)
  ELSE Request("POST", "base", <<>>, <<>>, "multipart", <<>>, key, value)

(* The key goes into the form body as it is. *)
set_request_raw_key(c, key, value) ==
  IF c = "sync"
  THEN Request("POST", "base", <<>>, <<>>, "form", key \o << "=" >> \o encode(value), <<>>, <<>>)
  ELSE Request("POST", "base", <<>>, <<>>, "multipart", <<>>, key, value)

set_request(c, key, value) ==
  IF c = "sync"
  THEN Request("POST", "base", <<>>, <<>>, "form", encode(key) \o << "=" >> \o encode(value), <<>>, <<>>)
  ELSE Request("POST", "base", <<>>, <<>>, "multipart", <<>>, key, value)

delete_request(c, key) ==
  Request("DELETE", "key", encode(key), <<>>, "none", <<>>, <<>>, <<>>)

list_prefix_request(c, prefix) ==
  Request("GET", "base", <<>>, prefix, "none", <<>>, <<>>, <<>>)

(* ------------------------------------------------------------------ *)
(* Results the clients return.                                         *)
(* ------------------------------------------------------------------ *)

Result(tag, str, keys, map) == [tag |-> tag, str |-> str, keys |-> keys, map |-> map]

Pending   == Result("Pending", <<>>, <<>>, {})
OkUnit    == Result("Ok", <<>>, <<>>, {})
OkNone    == Result("None", <<>>, <<>>, {})
OkSome(s) == Result("Some", s, <<>>, {})
OkList(l) == Result("List", <<>>, l, {})
OkMap(m)  == Result("Map", <<>>, <<>>, m)
Err(s)    == Result("Err", s, <<>>, {})
Panic     == Result("Panic", <<>>, <<>>, {})

(* reqwest::StatusCode::is_success *)
IsSuccess(status) == status >= 200 /\ status <= 299

NotFound == 404

(* response.text().map_err(|err| err.to_string())? *)
(* The error carries the transport's text whatever the body. *)
ErrText_no_body(resp) == Err(TransportMsg)

ErrText(resp) == IF resp.text_ok THEN Err(resp.body) ELSE Err(TransportMsg)

(* 404 is an error like any other status. *)
get_result_404_err(resp) ==
  IF ~resp.send_ok THEN Err(TransportMsg)
  ELSE IF IsSuccess(resp.status)
  THEN (IF resp.text_ok THEN OkSome(resp.body) ELSE Err(TransportMsg))
  ELSE ErrText(resp)

get_result(resp) ==
  IF ~resp.send_ok THEN Err(TransportMsg)
  ELSE IF IsSuccess(resp.status)
  THEN (IF resp.text_ok THEN OkSome(resp.body) ELSE Err(TransportMsg))
  ELSE IF resp.status = NotFound THEN OkNone
  ELSE ErrText(resp)

set_result(resp) ==
  IF ~resp.send_ok THEN Err(TransportMsg)
  ELSE IF IsSuccess(resp.status) THEN OkUnit
  ELSE ErrText(resp)

(* 404 is an error like any other status. *)
delete_result_404_err(resp) ==
  IF ~resp.send_ok THEN Err(TransportMsg)
  ELSE IF IsSuccess(resp.status) THEN OkUnit
  ELSE ErrText(resp)

delete_result(resp) ==
  IF ~resp.send_ok THEN Err(TransportMsg)
  ELSE IF IsSuccess(resp.status) \/ resp.status = NotFound THEN OkUnit
  ELSE ErrText(resp)

RECURSIVE DecodeLines(_)
DecodeLines(lines) ==
  IF lines = <<>> THEN [ok |-> TRUE, keys |-> <<>>]
  ELSE LET d == decode(Head(lines))
           r == DecodeLines(Tail(lines))
       IN  [ok |-> d.ok /\ r.ok, keys |-> << d.str >> \o r.keys]

list_prefix_result(resp) ==
  IF ~resp.send_ok THEN Err(TransportMsg)
  ELSE IF IsSuccess(resp.status)
  THEN IF ~resp.text_ok THEN Err(TransportMsg)
       ELSE LET r == DecodeLines(Split(resp.body, NL))
            IN  IF r.ok THEN OkList(r.keys) ELSE Err(DecodeMsg)
  ELSE ErrText(resp)

(* ------------------------------------------------------------------ *)
(* A client in the middle of a call.                                   *)
(*   req   the requests sent and not yet answered                      *)
(*   sent  every request sent since the call began                     *)
(*   keys  the listing a composite operation walks, idx its position   *)
(*         (0 while the listing is awaited), out the map get_all fills *)
(*   last  the response handled last                                   *)
(* ------------------------------------------------------------------ *)

NoResp == [send_ok |-> FALSE, status |-> 0, body |-> <<>>, text_ok |-> FALSE]

Response(rep) == [send_ok |-> rep.send_ok, status |-> rep.status, body |-> rep.body, text_ok |-> rep.text_ok]

Idle ==
  [pc |-> "idle", op |-> "none", key |-> <<>>, val |-> <<>>, keys |-> <<>>, idx |-> 0,
   out |-> {}, req |-> <<>>, sent |-> <<>>, res |-> Pending, last |-> NoResp]

Calling(op, key, val, request) ==
  [pc |-> "wait", op |-> op, key |-> key, val |-> val, keys |-> <<>>, idx |-> 0,
   out |-> {}, req |-> << request >>, sent |-> << request >>, res |-> Pending, last |-> NoResp]

(* The call returns r. *)
Finish(s, r, resp) == [s EXCEPT !.pc = "done", !.req = Tail(@), !.res = r, !.last = resp]

(* The response at the head of req was handled. *)
Handled(s, resp) == [s EXCEPT !.req = Tail(@), !.last = resp]

(* for key in keys { self.delete(key)?; } : the request of iteration i *)
empty_next(c, keys, i) == << delete_request(c, keys[i]) >>

empty_loop(c, s, i) ==
  IF i > Len(s.keys)
  THEN [s EXCEPT !.pc = "done", !.res = OkUnit]
  ELSE [s EXCEPT !.idx = i, !.req = @ \o empty_next(c, s.keys, i), !.sent = @ \o empty_next(c, s.keys, i)]

(* A failing delete does not end the loop. *)
empty_step_no_abort(c, s, resp) ==
  IF s.idx = 0
  THEN LET r == list_prefix_result(resp)
       IN  IF r.tag = "Err" THEN Finish(s, r, resp)
           ELSE empty_loop(c, [Handled(s, resp) EXCEPT !.keys = r.keys], 1)
  ELSE empty_loop(c, Handled(s, resp), s.idx + 1)

empty_step(c, s, resp) ==
  IF s.idx = 0
  THEN LET r == list_prefix_result(resp)
       IN  IF r.tag = "Err" THEN Finish(s, r, resp)
           ELSE empty_loop(c, [Handled(s, resp) EXCEPT !.keys = r.keys], 1)
  ELSE LET r == delete_result(resp)
       IN  IF r.tag = "Err" THEN Finish(s, r, resp)
           ELSE empty_loop(c, Handled(s, resp), s.idx + 1)

(* for key in keys { self.get(key.clone())?; ... } : the request of iteration i *)
(* Every get is sent as soon as the listing is there. *)
get_all_next_fan_out(c, keys, i) ==
  IF i = 1 THEN [j \in 1..Len(keys) |-> get_request(c, keys[j])] ELSE <<>>

get_all_next(c, keys, i) == << get_request(c, keys[i]) >>

get_all_loop(c, s, i) ==
  IF i > Len(s.keys)
  THEN [s EXCEPT !.pc = "done", !.res = OkMap(s.out)]
  ELSE [s EXCEPT !.idx = i, !.req = @ \o get_all_next(c, s.keys, i), !.sent = @ \o get_all_next(c, s.keys, i)]

(* A key that is gone is left out of the map. *)
get_all_step_skip_none(c, s, resp) ==
  IF s.idx = 0
  THEN LET r == list_prefix_result(resp)
       IN  IF r.tag = "Err" THEN Finish(s, r, resp)
           ELSE get_all_loop(c, [Handled(s, resp) EXCEPT !.keys = r.keys], 1)
  ELSE LET r == get_result(resp)
       IN  IF r.tag = "Err" THEN Finish(s, r, resp)
           ELSE IF r.tag = "None" THEN get_all_loop(c, Handled(s, resp), s.idx + 1)
           ELSE get_all_loop(c, [Handled(s, resp) EXCEPT !.out = Put(@, s.keys[s.idx], r.str)], s.idx + 1)

get_all_step(c, s, resp) ==
  IF s.idx = 0
  THEN LET r == list_prefix_result(resp)
       IN  IF r.tag = "Err" THEN Finish(s, r, resp)
           ELSE get_all_loop(c, [Handled(s, resp) EXCEPT !.keys = r.keys], 1)
  ELSE LET r == get_result(resp)
       IN  IF r.tag = "Err" THEN Finish(s, r, resp)
           ELSE IF r.tag = "None" THEN Finish(s, Panic, resp)
           ELSE get_all_loop(c, [Handled(s, resp) EXCEPT !.out = Put(@, s.keys[s.idx], r.str)], s.idx + 1)

(* The client handles the response to its oldest request. *)
Advance(c, s, resp) ==
  CASE s.op = "get"     -> Finish(s, get_result(resp), resp)
    [] s.op = "set"     -> Finish(s, set_result(resp), resp)
    [] s.op = "delete"  -> Finish(s, delete_result(resp), resp)
    [] s.op = "empty"   -> empty_step(c, s, resp)
    [] s.op = "get_all" -> get_all_step(c, s, resp)
    [] OTHER            -> Finish(s, list_prefix_result(resp), resp)

(* ------------------------------------------------------------------ *)
(* State.                                                              *)
(*   store[c]  the database client c talks to                          *)
(*   cl[c]     client c                                                *)
(*   pre[c]    store[c] when the running call began                    *)
(*   ext       the writes of another writer since the call began       *)
(*   nat       every response since the call began was the service's   *)
(*             own answer, fully received                              *)
(*   prev      the call that returned last, when it was a set, delete  *)
(*             or empty that returned Ok, undisturbed;                 *)
(*             held: the key it deleted was there (delete), the store  *)
(*             held some key (set, empty)                              *)
(* ------------------------------------------------------------------ *)

NoPrev == [op |-> "none", key |-> <<>>, val |-> <<>>, held |-> FALSE]

Init ==
  /\ \E st \in Stores : store = [c \in Variants |-> st]
  /\ cl = [c \in Variants |-> Idle]
  /\ pre = store
  /\ ext = 0
  /\ nat = TRUE
  /\ prev = NoPrev

(* No other writer acted and every response was the service's own. *)
Undisturbed == ext = 0 /\ nat

AllIdle == \A c \in Variants : cl[c].pc = "idle"

(* prev is kept for the calls that read it back: get, delete and list. *)
Begin(op) ==
  /\ pre' = store
  /\ ext' = 0
  /\ nat' = TRUE
  /\ prev' = IF op \in {"get", "delete", "list"} THEN prev ELSE NoPrev
  /\ UNCHANGED store

get(key) ==
  /\ AllIdle
  /\ cl' = [c \in Variants |-> Calling("get", key, <<>>, get_request(c, key))]
  /\ Begin("get")

set(key, value) ==
  /\ AllIdle
  /\ cl' = [c \in Variants |-> Calling("set", key, value, set_request(c, key, value))]
  /\ Begin("set")

delete(key) ==
  /\ AllIdle
  /\ cl' = [c \in Variants |-> Calling("delete", key, <<>>, delete_request(c, key))]
  /\ Begin("delete")

list_prefix(prefix) ==
  /\ AllIdle
  /\ cl' = [c \in Variants |-> Calling("list_prefix", prefix, <<>>, list_prefix_request(c, prefix))]
  /\ Begin("list_prefix")

list ==
  /\ AllIdle
  /\ cl' = [c \in Variants |-> Calling("list", <<>>, <<>>, list_prefix_request(c, <<>>))]
  /\ Begin("list")

empty ==
  /\ AllIdle
  /\ cl' = [c \in Variants |-> Calling("empty", <<>>, <<>>, list_prefix_request(c, <<>>))]
  /\ Begin("empty")

get_all ==
  /\ AllIdle
  /\ cl' = [c \in Variants |-> Calling("get_all", <<>>, <<>>, list_prefix_request(c, <<>>))]
  /\ Begin("get_all")

DefaultOrder == CHOOSE o \in KeyOrders : TRUE

IsList(req) == req.target = "base" /\ req.method = "GET"

Waiting(c) == cl[c].pc = "wait" /\ cl[c].req # <<>>

(* The service answers the oldest request of every waiting client.  It   *)
(* answers 404 to a request for a key only when it does not hold the key, *)
(* and the order of a listing is its own.                                 *)
Respond(outcome, ord) ==
  /\ \E c \in Variants : Waiting(c)
  /\ (outcome.kind = "fault" /\ outcome.status = NotFound)
       => \A c \in Variants : Waiting(c) => Head(cl[c].req).target = "base"
  /\ outcome.kind = "garbled" => \A c \in Variants : Waiting(c) => IsList(Head(cl[c].req))
  /\ ord = DefaultOrder \/ (outcome.kind \in {"natural", "textfail"} /\ \E c \in Variants : Waiting(c) /\ IsList(Head(cl[c].req)))
  /\ store' = [c \in Variants |->
                 IF Waiting(c) THEN Reply(Head(cl[c].req), store[c], outcome, ord).store ELSE store[c]]
  /\ cl' = [c \in Variants |->
              IF Waiting(c)
              THEN Advance(c, cl[c], Response(Reply(Head(cl[c].req), store[c], outcome, ord)))
              ELSE cl[c]]
  /\ nat' = (nat /\ outcome.kind = "natural")
  /\ UNCHANGED << pre, ext, prev >>

(* The call's result goes to the caller. *)
Return ==
  /\ \A c \in Variants : cl[c].pc = "done"
  /\ prev' = IF /\ cl["sync"].op \in {"set", "delete", "empty"}
                 /\ \A c \in Variants : cl[c].res.tag = "Ok"
                 /\ Undisturbed
              THEN [op   |-> cl["sync"].op,
                    key  |-> cl["sync"].key,
                    val  |-> cl["sync"].val,
                    held |-> \A c \in Variants :
                               IF cl[c].op = "delete" THEN cl[c].key \in KeysOf(pre[c]) ELSE pre[c] # {}]
              ELSE NoPrev
  /\ cl' = [c \in Variants |-> Idle]
  /\ pre' = store
  /\ ext' = 0
  /\ nat' = TRUE
  /\ UNCHANGED store

(* Another writer of the same database, at work while a call runs. *)
ExternalSet(key, value) ==
  /\ \E c \in Variants : Waiting(c)
  /\ ext < MaxExternal
  /\ \E c \in Variants : << key, value >> \notin store[c]
  /\ store' = [c \in Variants |-> Put(store[c], key, value)]
  /\ ext' = ext + 1
  /\ UNCHANGED << cl, pre, nat, prev >>

ExternalDelete(key) ==
  /\ \E c \in Variants : Waiting(c)
  /\ ext < MaxExternal
  /\ \E c \in Variants : key \in KeysOf(store[c])
  /\ store' = [c \in Variants |-> Remove(store[c], key)]
  /\ ext' = ext + 1
  /\ UNCHANGED << cl, pre, nat, prev >>

Next ==
  \/ \E k \in Keys : get(k)
  \/ \E k \in Keys, v \in Values : set(k, v)
  \/ \E k \in Keys : delete(k)
  \/ \E p \in Prefixes : list_prefix(p)
  \/ list
  \/ empty
  \/ get_all
  \/ \E o \in Outcomes, ord \in KeyOrders : Respond(o, ord)
  \/ Return
  \/ \E k \in Keys, v \in Values : ExternalSet(k, v)
  \/ \E k \in Keys : ExternalDelete(k)

Spec == Init /\ [][Next]_vars

(* ------------------------------------------------------------------ *)
(* Properties.                                                         *)
(* ------------------------------------------------------------------ *)

Done(c) == cl[c].pc = "done"

Special == <<"&", "=", NL, "%", "2", "6">>

(* The requests a composite call has sent once it is at key n of its listing. *)
Issued(c, n) ==
  << list_prefix_request(c, <<>>) >> \o
  [i \in 1..n |-> IF cl[c].op = "empty" THEN delete_request(c, cl[c].keys[i])
                                        ELSE get_request(c, cl[c].keys[i])]

(* C1: a get(k) that follows a successful set(k, v), nothing else having   *)
(* written to the store, returns Some(v), v unchanged.                     *)
C1_SetThenGet ==
  \A c \in Variants :
    (Done(c) /\ cl[c].op = "get" /\ prev.op = "set" /\ prev.key = cl[c].key /\ Undisturbed)
      => cl[c].res = OkSome(prev.val)

C1_Witness ==
  \A c \in Variants :
    /\ Done(c) /\ cl[c].op = "get" /\ prev.op = "set" /\ prev.key = cl[c].key /\ Undisturbed
    /\ prev.val = Special
    /\ cl[c].key = <<"a", NL>>
    /\ cl[c].res = OkSome(Special)

(* C2: a list() that follows an empty() which returned Ok on a store that  *)
(* held keys, with no other writer, returns Ok with no element.            *)
C2_EmptyThenList ==
  \A c \in Variants :
    (Done(c) /\ cl[c].op = "list" /\ prev.op = "empty" /\ prev.held /\ Undisturbed)
      => cl[c].res = OkList(<<>>)

(* C3: with no other writer, get_all() returns Ok with exactly the pairs   *)
(* of the store.                                                           *)
C3_GetAllIsStore ==
  \A c \in Variants :
    (Done(c) /\ cl[c].op = "get_all" /\ Undisturbed)
      => cl[c].res = OkMap(pre[c])

(* C4: get(k) on a key that is not in the store (never set, or deleted)    *)
(* is answered 404 and returns Ok(None), not Err.                          *)
C4_GetAbsent ==
  \A c \in Variants :
    (Done(c) /\ cl[c].op = "get")
      => /\ (cl[c].key \notin KeysOf(pre[c]) /\ Undisturbed) => cl[c].last.status = NotFound
         /\ (cl[c].last.send_ok /\ cl[c].last.status = NotFound) => cl[c].res = OkNone

C4_Witness ==
  \A c \in Variants :
    /\ Done(c) /\ cl[c].op = "get" /\ Undisturbed
    /\ prev.op = "delete" /\ prev.key = cl[c].key /\ prev.held
    /\ cl[c].res = OkNone

(* C5: delete(k) on a key that is not in the store is answered 404,        *)
(* returns Ok(()) and leaves the store as it was; after a delete(k) the    *)
(* key is gone, so a second delete(k) is such a call.                      *)
C5_DeleteIdempotent ==
  \A c \in Variants :
    /\ (cl[c].op = "delete" /\ prev.op = "delete" /\ prev.key = cl[c].key)
         => cl[c].key \notin KeysOf(pre[c])
    /\ (Done(c) /\ cl[c].op = "delete" /\ cl[c].key \notin KeysOf(pre[c]) /\ Undisturbed)
         => /\ cl[c].last.status = NotFound
            /\ cl[c].res = OkUnit
            /\ store[c] = pre[c]

C5_Witness ==
  \A c \in Variants :
    /\ Done(c) /\ cl[c].op = "delete" /\ Undisturbed
    /\ prev.op = "delete" /\ prev.key = cl[c].key /\ prev.held
    /\ cl[c].last.status = NotFound
    /\ cl[c].res = OkUnit
    /\ store[c] = pre[c]

(* C6: a primitive operation answered with a status that is neither 2xx    *)
(* nor, for get and delete, 404 returns Err with the response body as its  *)
(* message, having sent that one request only.                             *)
Primitive == {"get", "set", "delete", "list_prefix", "list"}

RemoteError(c) ==
  /\ cl[c].last.send_ok
  /\ cl[c].last.text_ok
  /\ ~IsSuccess(cl[c].last.status)
  /\ ~(cl[c].op \in {"get", "delete"} /\ cl[c].last.status = NotFound)

C6_RemoteError ==
  \A c \in Variants :
    (Done(c) /\ cl[c].op \in Primitive /\ RemoteError(c))
      => /\ cl[c].res = Err(cl[c].last.body)
         /\ Len(cl[c].sent) = 1
         /\ cl[c].req = <<>>

C6_Witness ==
  \A c \in Variants :
    /\ Done(c) /\ cl[c].op = "set" /\ RemoteError(c)
    /\ cl[c].last.status = 500
    /\ cl[c].res = Err(Boom)

(* C7: in empty(), the first failing list or delete ends the call, whose   *)
(* result is that error; no delete was sent for a key after the failing    *)
(* one and (no other writer) the keys before it are deleted, the keys      *)
(* after it stored as they were.                                           *)
Answered(c) == Len(cl[c].sent) - Len(cl[c].req)

(* What the call answered last returned to empty(). *)
LastResult(c) ==
  IF IsList(cl[c].sent[Answered(c)]) THEN list_prefix_result(cl[c].last)
                                     ELSE delete_result(cl[c].last)

C7_EmptyAborts ==
  \A c \in Variants :
    (cl[c].op = "empty" /\ Answered(c) >= 1)
      => /\ (Done(c) /\ cl[c].res.tag = "Err") => LastResult(c).tag = "Err"
         /\ LastResult(c).tag = "Err" =>
              /\ Done(c)
              /\ cl[c].res = LastResult(c)
              /\ cl[c].sent = Issued(c, cl[c].idx)
              /\ cl[c].req = <<>>
              /\ ext = 0 =>
                   /\ \A i \in 1..Len(cl[c].keys) :
                         i < cl[c].idx => cl[c].keys[i] \notin KeysOf(store[c])
                   /\ \A i \in 1..Len(cl[c].keys) :
                         i > cl[c].idx => << cl[c].keys[i], ValueOf(pre[c], cl[c].keys[i]) >> \in store[c]
                   /\ cl[c].idx = 0 => store[c] = pre[c]

C7_Witness ==
  \A c \in Variants :
    /\ Done(c) /\ cl[c].op = "empty" /\ cl[c].res = Err(Boom) /\ ext = 0
    /\ Len(cl[c].keys) = 3 /\ cl[c].idx = 2
    /\ KeysOf(store[c]) = { cl[c].keys[2], cl[c].keys[3] }

(* C8: in get_all(), a get that yields None for a listed key ends the call *)
(* in a panic: no Ok, no Err.                                              *)
C8_GetAllPanics ==
  \A c \in Variants :
    (cl[c].op = "get_all" /\ cl[c].idx >= 1 /\ cl[c].last.send_ok /\ cl[c].last.status = NotFound)
      => Done(c) /\ cl[c].res = Panic

C8_Witness ==
  \A c \in Variants :
    /\ Done(c) /\ cl[c].op = "get_all" /\ cl[c].res = Panic /\ nat /\ ext > 0
    /\ cl[c].idx = 2
    /\ cl[c].keys[2] \in KeysOf(pre[c])
    /\ cl[c].keys[2] \notin KeysOf(store[c])

C10_OneAtATime ==
  \A c \in Variants :
    cl[c].op \in {"empty", "get_all"}
      => /\ Len(cl[c].req) <= 1
         /\ cl[c].pc = "wait" => cl[c].req = << cl[c].sent[Len(cl[c].sent)] >>
         /\ cl[c].idx <= Len(cl[c].keys)
         /\ cl[c].sent = Issued(c, cl[c].idx)
         /\ (Done(c) /\ cl[c].res.tag \in {"Ok", "Map"}) => cl[c].idx = Len(cl[c].keys)

C10_Witness ==
  \A c \in Variants :
    /\ Done(c) /\ cl[c].op = "empty" /\ cl[c].res = OkUnit
    /\ Len(cl[c].keys) = 3
    /\ Len(cl[c].sent) = 4
    /\ store[c] = {}

====
